---- MODULE Spec2Model ----
(***************************************************************************)
(* Model of the pipecat-quickstart session supervisor:                     *)
(*   runner.py  - PipecatRunner: /start handler, _spawn_bot, active_tasks  *)
(*   bot.py     - run_bot: IdleTracker, UserActivityDetector, transport    *)
(*                event handlers, session-end webhook                      *)
(***************************************************************************)
EXTENDS Integers, Sequences, FiniteSets, TLC

(* ------------------------------ bounds --------------------------------- *)
\* sessions the whole-program specification starts
MaxWorkers == 1
\* start requests the registry specification serves
MaxStarts == 3
\* IdleTracker objects the tracker specification exercises
MaxTrackers == 2
\* cap on continuous_idle_time_seconds (the code's counter is unbounded)
MaxIdle == 230
\* frames pushed through one session's UserActivityDetector
MaxFrames == 2
\* workers the /start handler of the provisioning specification may spawn
MaxRequests == 2
\* workers the /start handler of the avatar specification may spawn
MaxAvatarStarts == 2
\* frames pushed through one detector in the detector specification
MaxDetectorFrames == 4
\* workers the /start handler of the prompt specification may spawn
MaxPromptStarts == 2
\* sessions the lifetime specification starts, idles and ends
MaxLives == 1
\* sessions the teardown specification ends
MaxTeardowns == 1
\* sessions of the specification that interleaves the client-connected
\* handler with idle ticks, and the silence up to which they are ticked
MaxContextSessions == 1
MaxContextIdle == 40
\* start requests of the specification that resolves bot_name and
\* user_name
MaxNameStarts == 1
\* sessions of the specification that has a webhook POST outstanding
MaxWebhookSessions == 2
\* silence up to which those sessions are ticked
MaxWebhookIdle == 30

(* ------------------------- program constants --------------------------- *)
\* bot.py:313  self.continuous_idle_time_seconds += 10
IdleIncrement == 10
\* bot.py:320  if self.continuous_idle_time_seconds > 200
Ceiling == 200
\* bot.py:390  UserIdleProcessor(timeout=15.0)
TimerInterval == 15
\* bot.py:337  if self.consecutive_idle_count <= 2
CheckinLimit == 2

\* identities of the spawn tasks, in the order the start requests arrive
Largest(a, b) == IF a > b THEN a ELSE b
Workers ==
    1..Largest(Largest(Largest(MaxStarts,
                               Largest(Largest(MaxWebhookSessions,
                                               MaxContextSessions),
                                       MaxNameStarts)),
                       Largest(MaxRequests + 1, MaxTeardowns)),
               Largest(Largest(MaxWorkers, Largest(MaxLives, MaxPromptStarts)),
                       Largest(MaxTrackers, MaxAvatarStarts)))

VARIABLES
    active_tasks,                  \* runner.py:120 task id -> spawn task
    task_id,                       \* task id handed to each spawned worker
    status,                        \* "unborn" | "running" | "crashed" | "done"
    outcome,                       \* how the spawn task ended
    consecutive_idle_count,        \* bot.py:301
    conversation_ended,            \* bot.py:302
    continuous_idle_time_seconds,  \* bot.py:303
    messages,                      \* bot.py:272 the conversation context
    pc,                            \* position of handle_idle
    queued,                        \* LLMMessagesUpdateFrames queued to the task
    tick_result,                   \* what the last handle_idle call did
    cancelling,                    \* an awaited task.cancel() is in effect
    webhook_posts,                 \* POSTs issued to the webhook
    webhook_outcome,               \* how the last of those POSTs went
    signals,                       \* transport signals already delivered
    silent_seconds,                \* wall-clock silence the idle timer measured
    started,                       \* bot.py:368 UserActivityDetector.started
    pushed,                        \* frames pushed on by the detector
    received,                      \* frames process_frame was called with
    env,                           \* os.getenv: which settings are present
    start_log,                     \* the last /start request and its result
    runner_args,                   \* DailyRunnerArguments given to each worker
    bot_file,                      \* bot module _spawn_bot chose
    serving,                       \* uvicorn.run was reached: requests are served
    posting                        \* session whose requests.post call has not
                                   \* returned yet, 0 when there is none

vars == <<active_tasks, task_id, status, outcome, consecutive_idle_count,
          conversation_ended, continuous_idle_time_seconds, messages, pc,
          queued, tick_result, cancelling, webhook_posts, webhook_outcome,
          signals, silent_seconds, started, pushed, received, env, start_log,
          runner_args, bot_file, serving, posting>>

startVars == <<env, start_log, runner_args, bot_file, serving>>
webhookVars == <<webhook_posts, webhook_outcome, posting>>
runnerVars == <<active_tasks, task_id, status, outcome, startVars>>
trackerVars == <<consecutive_idle_count, conversation_ended,
                 continuous_idle_time_seconds>>
detectorVars == <<started, pushed, received>>

(* ------------------------------ helpers -------------------------------- *)
Put(f, k, v) == [x \in (DOMAIN f) \cup {k} |-> IF x = k THEN v ELSE f[x]]
Delete(f, k) == [x \in (DOMAIN f) \ {k} |-> f[x]]
EmptyMap == [x \in {} |-> 0]

\* runner.py:371  task_id = f"daily_{len(self.active_tasks)}"
NextTaskId(reg) == Cardinality(DOMAIN reg)

\* runner.py:420  self.active_tasks[task_id] = task
RegistryInsert(reg, id, w) == Put(reg, id, w)

RegistryRemoveNothing(reg, id) == reg

\* runner.py:506-509  finally: if task_id in self.active_tasks: del ...
RegistryRemove(reg, id) == IF id \in DOMAIN reg THEN Delete(reg, id) ELSE reg

IdleAfterTickLeapsOverCeiling(t) == t + Ceiling + IdleIncrement

\* bot.py:313
IdleAfterTick(t) == t + IdleIncrement

ExceedsCeilingInclusive(t) == t >= Ceiling

\* bot.py:320
ExceedsCeiling(t) == t > Ceiling

IdleAfterResetHalves(t) == t \div 2

\* bot.py:309
IdleAfterReset(t) == 0

NeverSkipsIdleProcessing(ended) == FALSE

\* bot.py:330  if self.conversation_ended: return
SkipsIdleProcessing(ended) == ended

IsCheckinOffByOne(n) == n <= CheckinLimit + 1

\* bot.py:337
IsCheckin(n) == n <= CheckinLimit

\* bot.py:339-347  tone_variations[self.consecutive_idle_count - 1]
CheckinTurn(n) == IF n = 1 THEN "checkin_friendly_concerned"
                  ELSE "checkin_casual"

\* bot.py:352-355
GoodbyeTurn == "goodbye"


\* bot.py:379  direction.name == "user"
IsUserDirection(name) == name = "user"

\* (frame, direction.name) pairs process_frame receives: the transport input
\* pushes StartFrame and the user's audio/transcriptions downstream, later
\* stages push errors upstream; FrameDirection has the members DOWNSTREAM
\* and UPSTREAM only
FrameInputs == { <<"StartFrame", "DOWNSTREAM">>,
                 <<"UserFrame", "DOWNSTREAM">>,
                 <<"ErrorFrame", "UPSTREAM">> }

\* a frame carrying what the user said or sent
UserOriginated(frame) == frame[1] = "UserFrame"

(* ------------------------- /start provisioning ------------------------- *)
\* what a request can carry under "heygen_avatar_id": no such key, the empty
\* string, a string of white space, an identifier
AvatarValues == {"absent", "", " ", "avatar_1"}

\* Python truthiness of such a value: None and "" are falsy
Truthy(v) == v \notin {"absent", ""}

\* Python  a or b
OrElse(a, b) == IF Truthy(a) THEN a ELSE b

\* str.strip()
Strip(v) == IF v = " " THEN "" ELSE v

\* runner.py:279-291, bot.py:269, 433  the fields of the request the
\* program branches on, at the top level of the JSON object and in its
\* nested "body" object
Requests == [create_room : BOOLEAN,
             avatar_top : AvatarValues,
             avatar_body : AvatarValues,
             prompt_top : {"absent", "prompt_top"},
             prompt_body : {"absent", "prompt_body"},
             first_top : {"absent", "first_top"},
             first_body : {"absent", "first_body"},
             bot_top : {"absent", "bot_top"},
             bot_body : {"absent", "bot_body"},
             user_top : {"absent", "user_top"},
             user_body : {"absent", "user_body"}]

\* a request that carries a top-level system_prompt and nothing else:
\* createDailyRoom defaults to True, "body" to {}
DefaultRequest ==
    [create_room |-> TRUE, avatar_top |-> "absent", avatar_body |-> "absent",
     prompt_top |-> "prompt_top", prompt_body |-> "absent",
     first_top |-> "absent", first_body |-> "absent",
     bot_top |-> "absent", bot_body |-> "absent",
     user_top |-> "absent", user_body |-> "absent"]

\* runner.py:288  bot_name = body.get("bot_name") or data.get("bot_name",
\* "Nano Banana AI")
ResolvedBotName(req) ==
    IF req.bot_body # "absent" THEN req.bot_body
    ELSE IF req.bot_top # "absent" THEN req.bot_top
    ELSE "Nano Banana AI"

\* runner.py:289  user_name = body.get("user_name") or data.get("user_name",
\* "friend")
ResolvedUserName(req) ==
    IF req.user_body # "absent" THEN req.user_body
    ELSE IF req.user_top # "absent" THEN req.user_top
    ELSE "friend"

\* whether the provider answers 200 to each of the three calls
ProviderAnswers == [room : BOOLEAN, user_token : BOOLEAN, bot_token : BOOLEAN]
AllOk == [room |-> TRUE, user_token |-> TRUE, bot_token |-> TRUE]

\* which of DAILY_API_KEY and DAILY_SAMPLE_ROOM_URL are set
Envs == [api_key : BOOLEAN, sample_room : BOOLEAN]
FullEnv == [api_key |-> TRUE, sample_room |-> TRUE]

\* runner.py:317, 344  the room the handler works with
RoomOf(req) == IF req.create_room THEN "created_room" ELSE "sample_room"

\* runner.py:298-311  POST /rooms
RoomCall(ans) ==
    [op |-> "create_room", room |-> "created_room", user_name |-> "none",
     ok |-> ans.room]

\* runner.py:320-333, 350-363  POST /meeting-tokens for the user
UserTokenCall(req, ans) ==
    [op |-> "user_token", room |-> RoomOf(req), user_name |-> ResolvedUserName(req),
     ok |-> ans.user_token]

\* runner.py:373-386  POST /meeting-tokens for the bot
BotTokenCall(req, ans) ==
    [op |-> "bot_token", room |-> RoomOf(req),
     user_name |-> ResolvedBotName(req),
     ok |-> ans.bot_token]

\* the token a successful /meeting-tokens call returns
Token(call) ==
    [minted_by |-> call.op, room |-> call.room, user_name |-> call.user_name]

NoToken == [minted_by |-> "none", room |-> "none", user_name |-> "none"]

ProviderCallsRetryingUserToken(e, req, ans) ==
    IF e.api_key /\ ~ans.user_token
    THEN <<UserTokenCall(req, ans), UserTokenCall(req, ans)>>
    ELSE <<>>

\* runner.py:292-393  the provider calls one request makes, in order
ProviderCalls(e, req, ans) ==
    IF ~e.api_key THEN <<>>
    ELSE IF req.create_room
    THEN IF ~ans.room THEN <<RoomCall(ans)>>
         ELSE IF ~ans.user_token
         THEN <<RoomCall(ans), UserTokenCall(req, ans)>>
         ELSE <<RoomCall(ans), UserTokenCall(req, ans),
                BotTokenCall(req, ans)>>
    ELSE IF ~e.sample_room THEN <<>>
         ELSE IF ~ans.user_token THEN <<UserTokenCall(req, ans)>>
         ELSE <<UserTokenCall(req, ans), BotTokenCall(req, ans)>>

RequestRaisesOnRoomCreationOnly(e, req, ans) ==
    \/ ~e.api_key
    \/ req.create_room /\ ~ans.room
    \/ ~req.create_room /\ ~e.sample_room

RequestRaisesWithoutRoomCheck(e, req, ans) ==
    \/ ~e.api_key
    \/ req.create_room /\ ~ans.room
    \/ ~ans.user_token

\* runner.py:293-294, 313-314, 335-336, 342-343, 365-366  the raise
\* statements of the handler; a non-200 answer to the bot's token call
\* raises nothing (runner.py:388-393)
RequestRaises(e, req, ans) ==
    \/ ~e.api_key
    \/ req.create_room /\ ~ans.room
    \/ ~req.create_room /\ ~e.sample_room
    \/ ~ans.user_token

WorkerTokenIsTheUsers(req, ans) == Token(UserTokenCall(req, ans))

\* runner.py:399  token=bot_token if 'bot_token' in locals() else token
WorkerToken(req, ans) ==
    IF ans.bot_token THEN Token(BotTokenCall(req, ans))
    ELSE Token(UserTokenCall(req, ans))

\* runner.py:285
ResolvedAvatar(req) == OrElse(req.avatar_top, req.avatar_body)

\* runner.py:290  system_prompt = body.get("system_prompt") or
\* data.get("system_prompt"): None when neither is given
ResolvedPrompt(req) ==
    IF Truthy(OrElse(req.prompt_body, req.prompt_top))
    THEN OrElse(req.prompt_body, req.prompt_top) ELSE "None"

\* runner.py:397-416  the arguments handed to _spawn_bot; the body carries
\* "heygen_avatar_id" only when the resolved value is truthy, it always
\* carries "system_prompt" (possibly None), the resolved "bot_name" and
\* "user_name" and the request's nested body, and it has no
\* "first_message" key
RunnerArgs(req, token) ==
    [token |-> token,
     heygen_avatar_id |-> IF Truthy(ResolvedAvatar(req))
                          THEN ResolvedAvatar(req) ELSE "absent",
     system_prompt |-> ResolvedPrompt(req),
     bot_name |-> ResolvedBotName(req),
     user_name |-> ResolvedUserName(req),
     body_avatar |-> req.avatar_body,
     body_prompt |-> req.prompt_body,
     body_first |-> req.first_body,
     body_bot_name |-> req.bot_body,
     body_user_name |-> req.user_body]

NoArgs ==
    [token |-> NoToken, heygen_avatar_id |-> "absent",
     system_prompt |-> "None", bot_name |-> "none", user_name |-> "none",
     body_avatar |-> "absent", body_prompt |-> "absent",
     body_first |-> "absent", body_bot_name |-> "absent",
     body_user_name |-> "absent"]

\* bot.py:264, 432  body_data.get('body', {}) or body_data: the nested body
\* is used when it is a non-empty dict
NestedBodyIsUsed(args) ==
    \/ args.body_avatar # "absent"
    \/ args.body_prompt # "absent"
    \/ args.body_first # "absent"
    \/ args.body_bot_name # "absent"
    \/ args.body_user_name # "absent"

\* bot.py:265  bot_name = config_data.get('bot_name', 'Nano Banana AI')
BotName(args) ==
    IF NestedBodyIsUsed(args)
    THEN IF args.body_bot_name # "absent" THEN args.body_bot_name
         ELSE "Nano Banana AI"
    ELSE args.bot_name

\* bot.py:266  user_name = config_data.get('user_name', 'friend')
UserName(args) ==
    IF NestedBodyIsUsed(args)
    THEN IF args.body_user_name # "absent" THEN args.body_user_name
         ELSE "friend"
    ELSE args.user_name

\* bot.py:263-270  config_data.get('system_prompt', default): the default
\* only when config_data has no such key
SystemPrompt(args) ==
    IF NestedBodyIsUsed(args)
    THEN IF args.body_prompt # "absent" THEN args.body_prompt
         ELSE "default_prompt"
    ELSE args.system_prompt

\* bot.py:431-434  inner_config.get('first_message', default)
FirstMessage(args) ==
    IF NestedBodyIsUsed(args) /\ args.body_first # "absent"
    THEN args.body_first
    ELSE "default_first_message"

\* bot.py:272-277
InitialMessages(args) == <<SystemPrompt(args)>>

\* bot.py:279  system_prompt[:50] raises TypeError when system_prompt is
\* None
RunBotRaises(args) == SystemPrompt(args) = "None"

UseVideoBotWithoutStrip(args) ==
    Truthy(OrElse(args.heygen_avatar_id, args.body_avatar))

\* runner.py:471-478
UseVideoBot(args) ==
    LET id == OrElse(args.heygen_avatar_id, args.body_avatar)
    IN  Truthy(id) /\ Truthy(Strip(id))

\* runner.py:480-485
BotFile(args) == IF UseVideoBot(args) THEN "videobot.py" ELSE "bot.py"

\* runner.py:435  "avatar_enabled": bool(heygen_avatar_id)
AvatarEnabled(req) == Truthy(ResolvedAvatar(req))

\* runner.py:430-437  the JSON response, or the HTTPException of 441-443
Started(e, req, ans, w) ==
    [request |-> req, calls |-> ProviderCalls(e, req, ans),
     response |-> "started", token |-> Token(UserTokenCall(req, ans)),
     spawned |-> w, avatar_enabled |-> AvatarEnabled(req),
     bot_name |-> ResolvedBotName(req), user_name |-> ResolvedUserName(req)]

Failed(e, req, ans) ==
    [request |-> req, calls |-> ProviderCalls(e, req, ans),
     response |-> "error", token |-> NoToken, spawned |-> 0,
     avatar_enabled |-> FALSE, bot_name |-> "none", user_name |-> "none"]

NoStart ==
    [request |-> DefaultRequest, calls |-> <<>>, response |-> "none",
     token |-> NoToken, spawned |-> 0, avatar_enabled |-> FALSE,
     bot_name |-> "none", user_name |-> "none"]

(* ------------------------------- Init ---------------------------------- *)
FreshRunner ==
    /\ active_tasks = EmptyMap
    /\ task_id = [w \in Workers |-> -1]
    /\ status = [w \in Workers |-> "unborn"]
    /\ outcome = [w \in Workers |-> "none"]
    /\ start_log = NoStart
    /\ runner_args = [w \in Workers |-> NoArgs]
    /\ bot_file = [w \in Workers |-> "none"]
    /\ serving = FALSE

FreshSessions ==
    /\ consecutive_idle_count = [w \in Workers |-> 0]
    /\ conversation_ended = [w \in Workers |-> FALSE]
    /\ continuous_idle_time_seconds = [w \in Workers |-> 0]
    /\ messages = [w \in Workers |-> <<>>]
    /\ pc = [w \in Workers |-> "ready"]
    /\ queued = [w \in Workers |-> <<>>]
    /\ tick_result = [w \in Workers |-> "none"]
    /\ cancelling = [w \in Workers |-> FALSE]
    /\ webhook_posts = [w \in Workers |-> 0]
    /\ webhook_outcome = [w \in Workers |-> "none"]
    /\ posting = 0
    /\ signals = [w \in Workers |-> {}]
    /\ silent_seconds = [w \in Workers |-> 0]
    /\ started = [w \in Workers |-> FALSE]
    /\ pushed = [w \in Workers |-> <<>>]
    /\ received = [w \in Workers |-> <<>>]

Init == FreshRunner /\ FreshSessions /\ env = FullEnv

\* the runner, its request handlers and every session's pipeline, timers
\* and event handlers are tasks of one asyncio event loop (runner.py:395
\* asyncio.create_task): a step of any of them is taken only while no
\* synchronous call is blocking the loop's thread
EventLoopFree == posting = 0

(* --------------------------- runner.py --------------------------------- *)
\* _check_environment_variables: the required variables that are not set
\* (the daily transport requires DAILY_API_KEY)
MissingVars(e) == IF e.api_key THEN {} ELSE {"DAILY_API_KEY"}

\* PipecatRunner.run with the daily transport available: the missing
\* variables are logged as a warning, then uvicorn.run serves the app
Run ==
    /\ ~serving
    /\ serving' = TRUE
    /\ UNCHANGED <<active_tasks, task_id, status, outcome, env, start_log,
                   runner_args, bot_file, trackerVars, messages, pc, queued,
                   tick_result, cancelling, webhookVars, signals,
                   silent_seconds, detectorVars>>

\* /start: the handler from the parsed request to its response or its
\* HTTPException (it has no suspension point in between), then, for a
\* spawned worker, _spawn_bot's choice of the bot module and run_bot's
\* construction of the session (messages, IdleTracker); the worker is
\* "crashed" when run_bot raised during that construction and _spawn_bot
\* has yet to handle the exception.  videobot.py is not among the sources:
\* a worker running it is given bot.py's run_bot.
HandleStart(w, req, ans) ==
    /\ serving
    /\ EventLoopFree
    /\ status[w] = "unborn"
    /\ \A v \in Workers : v < w => status[v] # "unborn"
    /\ IF RequestRaises(env, req, ans)
       THEN /\ start_log' = Failed(env, req, ans)
            /\ UNCHANGED <<task_id, active_tasks, status, messages,
                           runner_args, bot_file>>
       ELSE /\ start_log' = Started(env, req, ans, w)
            /\ LET id == NextTaskId(active_tasks) IN
                 /\ task_id' = [task_id EXCEPT ![w] = id]
                 /\ active_tasks' = RegistryInsert(active_tasks, id, w)
            /\ runner_args' = [runner_args EXCEPT
                                 ![w] = RunnerArgs(req, WorkerToken(req, ans))]
            /\ bot_file' = [bot_file EXCEPT ![w] = BotFile(runner_args'[w])]
            /\ messages' = [messages EXCEPT
                              ![w] = InitialMessages(runner_args'[w])]
            /\ status' = [status EXCEPT
                            ![w] = IF RunBotRaises(runner_args'[w])
                                   THEN "crashed" ELSE "running"]
    /\ UNCHANGED <<env, serving, outcome, trackerVars, pc, queued,
                   tick_result, cancelling, webhookVars, signals,
                   silent_seconds, detectorVars>>

\* /start with the default request, every provider call answered with 200
Start(w) == HandleStart(w, DefaultRequest, AllOk)

\* _spawn_bot: the awaited bot returns, raises, or unwinds after the pipeline
\* task was cancelled; the finally block runs in each case.
WorkerEnds(w, kind) ==
    /\ EventLoopFree
    /\ status[w] \in {"running", "crashed"}
    /\ status[w] = "crashed" => kind = "fault"
    /\ kind = "cancelled" => cancelling[w]
    /\ status' = [status EXCEPT ![w] = "done"]
    /\ outcome' = [outcome EXCEPT ![w] = kind]
    /\ active_tasks' = RegistryRemove(active_tasks, task_id[w])
    /\ UNCHANGED <<task_id, trackerVars, messages, pc, queued, tick_result,
                   cancelling, webhookVars, signals, silent_seconds,
                   detectorVars, startVars>>

(* ----------------------------- bot.py ---------------------------------- *)
ResetIdleTimerClearsCount(w) ==
    /\ continuous_idle_time_seconds' =
          [continuous_idle_time_seconds EXCEPT ![w] = 0]
    /\ consecutive_idle_count' = [consecutive_idle_count EXCEPT ![w] = 0]
    /\ UNCHANGED conversation_ended

ResetIdleTimerOfEverySession(w) ==
    /\ continuous_idle_time_seconds' = [v \in Workers |-> 0]
    /\ UNCHANGED <<consecutive_idle_count, conversation_ended>>

\* IdleTracker.reset_idle_timer
ResetIdleTimer(w) ==
    /\ continuous_idle_time_seconds' =
          [continuous_idle_time_seconds EXCEPT ![w] = IdleAfterReset(@)]
    /\ UNCHANGED <<consecutive_idle_count, conversation_ended>>

IdleTimerOutlivesSession(w) == status[w] # "unborn"

\* bot.py:388-399  the idle timer is the pipeline stage user_idle: it calls
\* handle_idle only while the session's pipeline task runs
IdleTimerRuns(w) == status[w] = "running"

PrependTurn(msgs, turn) == <<turn>> \o msgs

\* bot.py:344, 352, 437  messages.append({"role": "system", "content": ...})
AppendTurn(msgs, turn) == Append(msgs, turn)

\* what the call task.cancel() in handle_idle's try block can do
CancelOutcomes == {"returned", "raised"}

\* what a tick reports: the call of task.cancel() when it was made (it is
\* made exactly on the ticks above the ceiling), else the branch taken
TickResult(t, c, branch) ==
    IF ExceedsCeiling(t)
    THEN IF c = "returned" THEN "cancel_requested" ELSE "cancel_raised"
    ELSE branch

\* IdleTracker.handle_idle up to its first suspension point, the call of
\* task.cancel() ending as c
HandleIdleTick(w, c) ==
    /\ EventLoopFree
    /\ IdleTimerRuns(w)
    /\ pc[w] = "ready"
    /\ IdleAfterTick(continuous_idle_time_seconds[w]) <= MaxIdle
    /\ LET t == IdleAfterTick(continuous_idle_time_seconds[w])
           n == consecutive_idle_count[w] + 1
       IN
         /\ continuous_idle_time_seconds' =
                [continuous_idle_time_seconds EXCEPT ![w] = t]
         /\ silent_seconds' = [silent_seconds EXCEPT ![w] = @ + TimerInterval]
         /\ IF ExceedsCeiling(t) /\ c = "returned"
            THEN \* cancelled = task.cancel(): the coroutine object is
                 \* created, printed and dropped without being awaited,
                 \* then the handler returns
                 /\ tick_result' =
                        [tick_result EXCEPT ![w] = TickResult(t, c, "none")]
                 /\ UNCHANGED <<consecutive_idle_count, messages, pc>>
            \* below the ceiling, or the except branch was taken: the
            \* handler goes on to the conversation_ended test
            ELSE IF SkipsIdleProcessing(conversation_ended[w])
            THEN /\ tick_result' =
                        [tick_result EXCEPT ![w] = TickResult(t, c, "skipped")]
                 /\ UNCHANGED <<consecutive_idle_count, messages, pc>>
            ELSE /\ consecutive_idle_count' =
                        [consecutive_idle_count EXCEPT ![w] = n]
                 /\ IF IsCheckin(n)
                    THEN /\ messages' = [messages EXCEPT
                                           ![w] = AppendTurn(@, CheckinTurn(n))]
                         /\ pc' = [pc EXCEPT ![w] = "queue_checkin"]
                         /\ tick_result' =
                                [tick_result EXCEPT
                                   ![w] = TickResult(t, c, "checkin")]
                    ELSE /\ messages' = [messages EXCEPT
                                           ![w] = AppendTurn(@, GoodbyeTurn)]
                         /\ pc' = [pc EXCEPT ![w] = "queue_goodbye"]
                         /\ tick_result' =
                                [tick_result EXCEPT
                                   ![w] = TickResult(t, c, "goodbye")]
    /\ UNCHANGED <<runnerVars, conversation_ended, queued, cancelling,
                   webhookVars, signals, detectorVars>>

\* task.queue_frames([LLMMessagesUpdateFrame(messages=messages,
\* run_llm=True)]): one frame is queued; it carries the context, recorded
\* here by the position of the context's last turn
QueueFrames(q, msgs) == Append(q, Len(msgs))

\* a firing of the idle timer: handle_idle is called, task.cancel() ending
\* either way should the tick reach it
HandleIdleBegin(w) == \E c \in CancelOutcomes : HandleIdleTick(w, c)

\* IdleTracker.handle_idle resumed after await task.queue_frames(...)
HandleIdleQueued(w) ==
    /\ EventLoopFree
    /\ IdleTimerRuns(w)
    /\ pc[w] \in {"queue_checkin", "queue_goodbye"}
    /\ queued' = [queued EXCEPT ![w] = QueueFrames(@, messages[w])]
    /\ conversation_ended' =
          [conversation_ended EXCEPT ![w] = @ \/ pc[w] = "queue_goodbye"]
    /\ pc' = [pc EXCEPT ![w] = "ready"]
    /\ UNCHANGED <<runnerVars, consecutive_idle_count,
                   continuous_idle_time_seconds, messages, tick_result,
                   cancelling, webhookVars, signals, silent_seconds,
                   detectorVars>>

PcAfterQueueFailureResumes == "ready"

\* where the idle timer stands once its callback has raised: the exception
\* ends the timer's task, which is not started again
PcAfterQueueFailure == "aborted"

\* IdleTracker.handle_idle when await task.queue_frames(...) raises: the
\* exception leaves handle_idle before anything else is assigned
HandleIdleQueueFails(w) ==
    /\ EventLoopFree
    /\ IdleTimerRuns(w)
    /\ pc[w] \in {"queue_checkin", "queue_goodbye"}
    /\ pc' = [pc EXCEPT ![w] = PcAfterQueueFailure]
    /\ UNCHANGED <<runnerVars, trackerVars, messages, queued, tick_result,
                   cancelling, webhookVars, signals, silent_seconds,
                   detectorVars>>

PushFrameUnlessUserActivity(out, frame) ==
    IF UserOriginated(frame) THEN out ELSE Append(out, frame)

\* bot.py:383  await self.push_frame(frame, direction)
PushFrame(out, frame) == Append(out, frame)

\* UserActivityDetector.process_frame
ProcessFrame(w, frame) ==
    /\ EventLoopFree
    /\ status[w] = "running"
    /\ received' = [received EXCEPT ![w] = Append(@, frame)]
    /\ started' = [started EXCEPT ![w] = @ \/ frame[1] = "StartFrame"]
    /\ IF IsUserDirection(frame[2])
       THEN /\ ResetIdleTimer(w)
            /\ silent_seconds' = [silent_seconds EXCEPT ![w] = 0]
       ELSE UNCHANGED <<trackerVars, silent_seconds>>
    /\ pushed' = [pushed EXCEPT ![w] = PushFrame(@, frame)]
    /\ UNCHANGED <<runnerVars, messages, pc, queued, tick_result, cancelling,
                   webhookVars, signals>>

\* on_client_connected
ClientConnected(w) ==
    /\ EventLoopFree
    /\ status[w] = "running"
    /\ "connected" \notin signals[w]
    /\ signals' = [signals EXCEPT ![w] = @ \cup {"connected"}]
    /\ messages' = [messages EXCEPT
                      ![w] = AppendTurn(@, FirstMessage(runner_args[w]))]
    /\ queued' = [queued EXCEPT ![w] = QueueFrames(@, messages'[w])]
    /\ UNCHANGED <<runnerVars, trackerVars, pc, tick_result, cancelling,
                   webhookVars, silent_seconds, detectorVars>>

\* what requests.post(webhook_url, ..., timeout=5) can do: answer 200,
\* answer another status, time out, fail to connect
WebhookOutcomes == {"200", "non_200", "timeout", "connection_error"}

NotificationRaisesOnTransportFailure(o) ==
    o \in {"timeout", "connection_error"}

\* bot.py:467-479, 524-536  the try around the POST catches Exception, so
\* nothing raised by the POST leaves the notification step
NotificationRaises(o) == FALSE

\* on_client_disconnected / on_participant_left: POST the summary once,
\* the POST ending as o, then await task.cancel(); an exception leaving the
\* notification step would skip the cancellation (bot.py:483-487)
SessionEndHandler(w, sig, o) ==
    /\ EventLoopFree
    /\ status[w] = "running"
    /\ sig \in {"disconnected", "left"}
    /\ sig \notin signals[w]
    /\ signals' = [signals EXCEPT ![w] = @ \cup {sig}]
    /\ webhook_posts' = [webhook_posts EXCEPT ![w] = @ + 1]
    /\ webhook_outcome' = [webhook_outcome EXCEPT ![w] = o]
    /\ cancelling' = [cancelling EXCEPT ![w] = @ \/ ~NotificationRaises(o)]
    /\ UNCHANGED posting
    /\ UNCHANGED <<runnerVars, trackerVars, messages, pc, queued,
                   tick_result, silent_seconds, detectorVars>>

\* on_client_disconnected / on_participant_left up to the call of
\* requests.post: the call is synchronous, the event loop's thread stays
\* inside it until the endpoint answers or the timeout passes
SessionEndPost(w, sig) ==
    /\ EventLoopFree
    /\ status[w] = "running"
    /\ sig \in {"disconnected", "left"}
    /\ sig \notin signals[w]
    /\ signals' = [signals EXCEPT ![w] = @ \cup {sig}]
    /\ webhook_posts' = [webhook_posts EXCEPT ![w] = @ + 1]
    /\ posting' = w
    /\ UNCHANGED <<runnerVars, trackerVars, messages, pc, queued,
                   tick_result, cancelling, webhook_outcome, silent_seconds,
                   detectorVars>>

\* the same handlers from the return of requests.post, the POST ending as
\* o, through await task.cancel()
SessionEndPosted(w, o) ==
    /\ posting = w
    /\ posting' = 0
    /\ webhook_outcome' = [webhook_outcome EXCEPT ![w] = o]
    /\ cancelling' = [cancelling EXCEPT ![w] = @ \/ ~NotificationRaises(o)]
    /\ UNCHANGED <<runnerVars, trackerVars, messages, pc, queued,
                   tick_result, webhook_posts, signals, silent_seconds,
                   detectorVars>>

\* the same handlers when the webhook answers 200
TransportSignal(w, sig) == SessionEndHandler(w, sig, "200")

\* a direct call of IdleTracker.reset_idle_timer
ResetCall(w) ==
    /\ EventLoopFree
    /\ status[w] = "running"
    /\ ResetIdleTimer(w)
    /\ silent_seconds' = [silent_seconds EXCEPT ![w] = 0]
    /\ UNCHANGED <<runnerVars, messages, pc, queued, tick_result, cancelling,
                   webhookVars, signals, detectorVars>>

(* --------------------------- specifications ---------------------------- *)
EndKinds == {"completed", "fault", "cancelled"}
TransportSignals == {"disconnected", "left"}

\* the whole program serving MaxWorkers start requests
Next ==
    \/ Run
    \/ \E w \in 1..MaxWorkers : Start(w)
    \/ \E w \in 1..MaxWorkers, k \in EndKinds : WorkerEnds(w, k)
    \/ \E w \in 1..MaxWorkers : HandleIdleBegin(w)
    \/ \E w \in 1..MaxWorkers : HandleIdleQueued(w)
    \/ \E w \in 1..MaxWorkers : HandleIdleQueueFails(w)
    \/ \E w \in 1..MaxWorkers, f \in FrameInputs :
          Len(received[w]) < MaxFrames /\ ProcessFrame(w, f)
    \/ \E w \in 1..MaxWorkers : ClientConnected(w)
    \/ \E w \in 1..MaxWorkers, s \in TransportSignals, o \in WebhookOutcomes :
          SessionEndHandler(w, s, o)

Spec == Init /\ [][Next]_vars

\* the runner and its registry serving MaxStarts start requests; the
\* sessions only connect, disconnect and end
RunnerNext ==
    \/ Run
    \/ \E w \in 1..MaxStarts : Start(w)
    \/ \E w \in 1..MaxStarts, k \in EndKinds : WorkerEnds(w, k)
    \/ \E w \in 1..MaxStarts, s \in TransportSignals : TransportSignal(w, s)

RunnerSpec == Init /\ [][RunnerNext]_vars

\* MaxTrackers sessions already started, whose IdleTracker methods are
\* called in every order
TrackerInit ==
    /\ active_tasks = [i \in 0..(MaxTrackers - 1) |-> i + 1]
    /\ task_id = [w \in Workers |-> IF w <= MaxTrackers THEN w - 1 ELSE -1]
    /\ status = [w \in Workers |->
                   IF w <= MaxTrackers THEN "running" ELSE "unborn"]
    /\ outcome = [w \in Workers |-> "none"]
    /\ consecutive_idle_count = [w \in Workers |-> 0]
    /\ conversation_ended = [w \in Workers |-> FALSE]
    /\ continuous_idle_time_seconds = [w \in Workers |-> 0]
    /\ messages = [w \in Workers |->
                     IF w <= MaxTrackers
                     THEN InitialMessages(RunnerArgs(DefaultRequest, NoToken))
                     ELSE <<>>]
    /\ pc = [w \in Workers |-> "ready"]
    /\ queued = [w \in Workers |-> <<>>]
    /\ tick_result = [w \in Workers |-> "none"]
    /\ cancelling = [w \in Workers |-> FALSE]
    /\ webhook_posts = [w \in Workers |-> 0]
    /\ webhook_outcome = [w \in Workers |-> "none"]
    /\ posting = 0
    /\ signals = [w \in Workers |-> {}]
    /\ silent_seconds = [w \in Workers |-> 0]
    /\ started = [w \in Workers |-> FALSE]
    /\ pushed = [w \in Workers |-> <<>>]
    /\ received = [w \in Workers |-> <<>>]
    /\ env = FullEnv
    /\ start_log = NoStart
    /\ runner_args = [w \in Workers |->
                        IF w <= MaxTrackers
                        THEN RunnerArgs(DefaultRequest,
                                        WorkerToken(DefaultRequest, AllOk))
                        ELSE NoArgs]
    /\ bot_file = [w \in Workers |->
                     IF w <= MaxTrackers THEN "bot.py" ELSE "none"]
    /\ serving = TRUE

TrackerNext ==
    \/ \E w \in 1..MaxTrackers : HandleIdleBegin(w)
    \/ \E w \in 1..MaxTrackers : HandleIdleQueued(w)
    \/ \E w \in 1..MaxTrackers : HandleIdleQueueFails(w)
    \/ \E w \in 1..MaxTrackers : ResetCall(w)

TrackerSpec == TrackerInit /\ [][TrackerNext]_vars

\* requests that carry a top-level system_prompt, no names and no nested
\* body
PromptedRequests ==
    {req \in Requests :
        /\ req.prompt_top # "absent" /\ req.prompt_body = "absent"
        /\ req.first_top = "absent" /\ req.first_body = "absent"
        /\ req.bot_top = "absent" /\ req.bot_body = "absent"
        /\ req.user_top = "absent" /\ req.user_body = "absent"}

\* those of them that name no avatar
PlainRequests ==
    {req \in PromptedRequests :
        req.avatar_top = "absent" /\ req.avatar_body = "absent"}

\* requests for a new room, without avatar and names, with every placement
\* of system_prompt and first_message
PromptRequests ==
    {req \in Requests :
        /\ req.create_room
        /\ req.avatar_top = "absent" /\ req.avatar_body = "absent"
        /\ req.bot_top = "absent" /\ req.bot_body = "absent"
        /\ req.user_top = "absent" /\ req.user_body = "absent"}

\* the /start handler provisioning rooms and tokens: requests without an
\* avatar, under every configuration and every answer of the provider;
\* once MaxRequests workers were spawned it is sent only the requests it
\* refuses
StartInit == FreshRunner /\ FreshSessions /\ env \in Envs

StartNext ==
    \/ Run
    \/ \E w \in 1..(MaxRequests + 1), req \in PlainRequests,
           ans \in ProviderAnswers :
          /\ w > MaxRequests => RequestRaises(env, req, ans)
          /\ HandleStart(w, req, ans)
    \/ \E w \in 1..MaxRequests, k \in {"completed", "fault"} :
          WorkerEnds(w, k)

StartSpec == StartInit /\ [][StartNext]_vars

\* the /start handler and _spawn_bot choosing the bot module: every
\* placement of the avatar identifier, the provider answering 200
AvatarNext ==
    \/ Run
    \/ \E w \in 1..MaxAvatarStarts, req \in PromptedRequests :
          HandleStart(w, req, AllOk)
    \/ \E w \in 1..MaxAvatarStarts : WorkerEnds(w, "completed")

AvatarSpec == Init /\ [][AvatarNext]_vars

\* MaxTeardowns sessions that connect, lose their participant and end; the
\* spawn task of a session whose pipeline task was cancelled comes to its
\* finally block
TeardownNext ==
    \/ Run
    \/ \E w \in 1..MaxTeardowns : Start(w)
    \/ \E w \in 1..MaxTeardowns, k \in EndKinds : WorkerEnds(w, k)
    \/ \E w \in 1..MaxTeardowns : ClientConnected(w)
    \/ \E w \in 1..MaxTeardowns, s \in TransportSignals,
           o \in WebhookOutcomes : SessionEndHandler(w, s, o)

TeardownSpec ==
    /\ Init
    /\ [][TeardownNext]_vars
    /\ \A w \in 1..MaxTeardowns : WF_vars(WorkerEnds(w, "cancelled"))

\* MaxLives sessions from their start to their end, the idle timer firing
\* in between
LifetimeNext ==
    \/ Run
    \/ \E w \in 1..MaxLives : Start(w)
    \/ \E w \in 1..MaxLives, k \in EndKinds : WorkerEnds(w, k)
    \/ \E w \in 1..MaxLives : HandleIdleBegin(w)
    \/ \E w \in 1..MaxLives : HandleIdleQueued(w)
    \/ \E w \in 1..MaxLives : HandleIdleQueueFails(w)
    \/ \E w \in 1..MaxLives, s \in TransportSignals : TransportSignal(w, s)

LifetimeSpec == Init /\ [][LifetimeNext]_vars

\* MaxLives sessions whose UserActivityDetector is sent frames of every
\* kind and direction
DetectorNext ==
    \/ Run
    \/ \E w \in 1..MaxLives : Start(w)
    \/ \E w \in 1..MaxLives, f \in FrameInputs :
          Len(received[w]) < MaxDetectorFrames /\ ProcessFrame(w, f)

DetectorSpec == Init /\ [][DetectorNext]_vars

\* the /start handler and run_bot resolving system_prompt and
\* first_message for MaxPromptStarts workers, the provider answering 200
PromptNext ==
    \/ Run
    \/ \E w \in 1..MaxPromptStarts, req \in PromptRequests :
          HandleStart(w, req, AllOk)
    \/ \E w \in 1..MaxPromptStarts : ClientConnected(w)
    \/ \E w \in 1..MaxPromptStarts, k \in {"completed", "fault"} :
          WorkerEnds(w, k)

PromptSpec == Init /\ [][PromptNext]_vars

\* requests for a new room with a top-level system_prompt, with every
\* placement of bot_name and user_name, the nested body carrying a
\* first_message or not
NameRequests ==
    {req \in Requests :
        /\ req.create_room
        /\ req.avatar_top = "absent" /\ req.avatar_body = "absent"
        /\ req.prompt_top # "absent" /\ req.prompt_body = "absent"
        /\ req.first_top = "absent"}

\* the /start handler and run_bot resolving bot_name and user_name for
\* MaxNameStarts workers, the provider answering 200
NameNext ==
    \/ Run
    \/ \E w \in 1..MaxNameStarts, req \in NameRequests :
          HandleStart(w, req, AllOk)
    \/ \E w \in 1..MaxNameStarts : ClientConnected(w)
    \/ \E w \in 1..MaxNameStarts, k \in {"completed", "fault"} :
          WorkerEnds(w, k)

NameSpec == Init /\ [][NameNext]_vars

\* MaxContextSessions sessions whose client connects before, between or
\* after their idle ticks
ContextNext ==
    \/ Run
    \/ \E w \in 1..MaxContextSessions : Start(w)
    \/ \E w \in 1..MaxContextSessions : ClientConnected(w)
    \/ \E w \in 1..MaxContextSessions :
          /\ continuous_idle_time_seconds[w] < MaxContextIdle
          /\ HandleIdleBegin(w)
    \/ \E w \in 1..MaxContextSessions : HandleIdleQueued(w)
    \/ \E w \in 1..MaxContextSessions : HandleIdleQueueFails(w)
    \/ \E w \in 1..MaxContextSessions, k \in {"completed", "fault"} :
          WorkerEnds(w, k)

ContextSpec == Init /\ [][ContextNext]_vars

\* MaxWebhookSessions sessions that tick, receive a user frame, lose their
\* participant and end, the webhook POST of the session-end handlers taking
\* its time; the sessions are ticked through their goodbye
WebhookNext ==
    \/ Run
    \/ \E w \in 1..MaxWebhookSessions : Start(w)
    \/ \E w \in 1..MaxWebhookSessions, k \in EndKinds : WorkerEnds(w, k)
    \/ \E w \in 1..MaxWebhookSessions :
          /\ continuous_idle_time_seconds[w] < MaxWebhookIdle
          /\ HandleIdleBegin(w)
    \/ \E w \in 1..MaxWebhookSessions : HandleIdleQueued(w)
    \/ \E w \in 1..MaxWebhookSessions :
          /\ received[w] = <<>>
          /\ ProcessFrame(w, <<"UserFrame", "DOWNSTREAM">>)
    \/ \E w \in 1..MaxWebhookSessions, s \in TransportSignals :
          SessionEndPost(w, s)
    \/ \E w \in 1..MaxWebhookSessions, o \in WebhookOutcomes :
          SessionEndPosted(w, o)

WebhookSpec == Init /\ [][WebhookNext]_vars

(* ------------------------------ properties ----------------------------- *)
\* the tick called task.cancel()
CancelWasRequested(r) == r \in {"cancel_requested", "cancel_raised"}

IdleTurnKinds == {"checkin_friendly_concerned", "checkin_casual", "goodbye"}
IsIdleTurn(m) == m \in IdleTurnKinds
IdleTurns(w) == SelectSeq(messages[w], IsIdleTurn)
EscalationOrder == <<"checkin_friendly_concerned", "checkin_casual", "goodbye">>
AtMost3(n) == IF n > 3 THEN 3 ELSE n

\* a step in which the idle timer fired for w / activity reset w's tracker
IsTick(w) == silent_seconds'[w] > silent_seconds[w]
IsReset(w) == silent_seconds'[w] < silent_seconds[w]

\* C1: the idle handler's turns are, in order, the friendly check-in on the
\* 1st tick, the casual check-in on the 2nd and the goodbye on the 3rd;
\* conversation_ended is false before the 3rd tick and true once the 3rd
\* tick's handler has completed, in particular after three silent intervals.
C1_EscalationOrdering ==
    \A w \in Workers :
        LET k == consecutive_idle_count[w] IN
          /\ k <= 3
          /\ IdleTurns(w) = SubSeq(EscalationOrder, 1, k)
          /\ k >= AtMost3(silent_seconds[w] \div TimerInterval)
          /\ conversation_ended[w] => k = 3
          /\ (k = 3 /\ pc[w] = "ready") => conversation_ended[w]

C1_Witness ==
    \E w \in Workers :
        /\ silent_seconds[w] = 3 * TimerInterval
        /\ consecutive_idle_count[w] = 3
        /\ conversation_ended[w]
        /\ IdleTurns(w) = EscalationOrder

\* C2: a tick requests cancellation exactly when the counter after its
\* increment is strictly above the ceiling (not at the ceiling, and again on
\* every later tick while the counter stays above it); no other step
\* requests cancellation on the tracker's behalf.
C2_CeilingCancellation ==
    [][\A w \in Workers :
          /\ IsTick(w) =>
                (CancelWasRequested(tick_result'[w])
                    <=> (continuous_idle_time_seconds'[w] > Ceiling))
          /\ ~IsTick(w) => tick_result'[w] = tick_result[w]]_vars

C2_Witness ==
    \E w, v \in Workers :
        /\ continuous_idle_time_seconds[w] = Ceiling
        /\ tick_result[w] = "skipped"
        /\ continuous_idle_time_seconds[v] = Ceiling + 2 * IdleIncrement
        /\ tick_result[v] = "cancel_requested"

\* C3: continuous_idle_time_seconds equals the silence the idle timer has
\* measured (each tick adds the timer interval), so that once 210 s of
\* silence have elapsed cancellation has been requested.
C3_CounterIsElapsedSilence ==
    \A w \in Workers :
        /\ continuous_idle_time_seconds[w] = silent_seconds[w]
        /\ silent_seconds[w] > Ceiling => CancelWasRequested(tick_result[w])

\* C4: a ceiling cancellation request takes effect: once a tick has
\* requested it, the worker is being cancelled or has ended.
C4_CeilingCancelTakesEffect ==
    \A w \in Workers :
        CancelWasRequested(tick_result[w])
            => (cancelling[w] \/ status[w] = "done")

\* C5: when the detector forwards a user-originated frame, the tracker's
\* continuous_idle_time_seconds has been reset to 0.
C5_UserFrameResetsIdle ==
    [][\A w \in Workers :
          (/\ Len(pushed'[w]) = Len(pushed[w]) + 1
           /\ UserOriginated(pushed'[w][Len(pushed'[w])]))
              => continuous_idle_time_seconds'[w] = 0]_vars

\* C6: an activity reset sets continuous_idle_time_seconds to 0 and leaves
\* consecutive_idle_count, conversation_ended and the messages unchanged.
C6_ResetFrame ==
    [][\A w \in Workers :
          IsReset(w) =>
              /\ continuous_idle_time_seconds'[w] = 0
              /\ consecutive_idle_count'[w] = consecutive_idle_count[w]
              /\ conversation_ended'[w] = conversation_ended[w]
              /\ messages'[w] = messages[w]]_vars

C6_Witness ==
    \E w, v \in Workers :
        /\ conversation_ended[w]
        /\ consecutive_idle_count[w] = 3
        /\ continuous_idle_time_seconds[w] = 0
        /\ pc[v] = "queue_checkin"
        /\ consecutive_idle_count[v] = 1
        /\ continuous_idle_time_seconds[v] = 0

\* C7: once conversation_ended is true, a tick whose counter stays at or
\* below the ceiling appends no turn, queues no frame and leaves
\* consecutive_idle_count unchanged.
C7_PostGoodbyeQuiescence ==
    [][\A w \in Workers :
          (/\ conversation_ended[w]
           /\ IsTick(w)
           /\ continuous_idle_time_seconds'[w] <= Ceiling)
              => /\ messages'[w] = messages[w]
                 /\ queued'[w] = queued[w]
                 /\ pc'[w] = "ready"
                 /\ consecutive_idle_count'[w] = consecutive_idle_count[w]]_vars

C7_Witness ==
    \E w \in Workers :
        /\ conversation_ended[w]
        /\ tick_result[w] = "skipped"
        /\ continuous_idle_time_seconds[w] = Ceiling

\* C8: the registry never replaces an entry: an id that stays registered
\* keeps the worker stored under it.
C8_RegistryNeverReplaces ==
    [][\A id \in DOMAIN active_tasks :
          id \in DOMAIN active_tasks'
              => active_tasks'[id] = active_tasks[id]]_vars

\* C9: when a worker finishes (completed, fault or cancelled) no entry is
\* left under its task id, and no registry entry refers to a finished worker.
C9_FinishedWorkerLeavesRegistry ==
    /\ [](\A id \in DOMAIN active_tasks : status[active_tasks[id]] = "running")
    /\ [][\A w \in Workers :
             (status[w] = "running" /\ status'[w] = "done")
                 => task_id[w] \notin DOMAIN active_tasks']_vars

C9_Witness ==
    /\ \E a, b, c \in Workers :
          /\ outcome[a] = "completed"
          /\ outcome[b] = "fault"
          /\ outcome[c] = "cancelled"
    /\ DOMAIN active_tasks = {}

\* C10: every session that has ended, on whichever path, has had its
\* session-end webhook POSTed.
C10_WebhookOnEveryTermination ==
    \A w \in Workers : status[w] = "done" => webhook_posts[w] >= 1

\* C11: a fault inside one worker is absorbed by _spawn_bot: the step in
\* which the worker ends with a fault changes no other worker's status and
\* leaves every registry entry that refers to another worker in place.
C11_FaultIsIsolated ==
    [][\A w \in Workers :
          (status[w] = "running" /\ status'[w] = "done"
             /\ outcome'[w] = "fault")
              => \A v \in Workers \ {w} :
                    /\ status'[v] = status[v]
                    /\ \A id \in DOMAIN active_tasks :
                          active_tasks[id] = v
                              => /\ id \in DOMAIN active_tasks'
                                 /\ active_tasks'[id] = v]_vars

\* C18: at most one session-end webhook POST is issued per session,
\* whichever transport signals the session receives.
C18_AtMostOneWebhookPost ==
    \A w \in Workers : webhook_posts[w] <= 1

\* the IdleState and ConversationContext of one session
SessionState(w) ==
    <<consecutive_idle_count[w], conversation_ended[w],
      continuous_idle_time_seconds[w], messages[w]>>

\* C19: sessions share no mutable state: a step that changes one session's
\* IdleState or ConversationContext (a tick, a reset, an appended turn)
\* leaves those of every other session unchanged.
C19_SessionsAreIsolated ==
    [][\A w \in Workers :
          SessionState(w)' # SessionState(w)
              => \A v \in Workers \ {w} :
                    SessionState(v)' = SessionState(v)]_vars

C19_Witness ==
    \E w, v \in Workers :
        /\ w # v
        /\ conversation_ended[w]
        /\ continuous_idle_time_seconds[w] = 0
        /\ Len(messages[w]) = 4
        /\ consecutive_idle_count[v] = 1
        /\ continuous_idle_time_seconds[v] = IdleIncrement
        /\ Len(messages[v]) = 2


\* no registry entry names the spawn task w
HasNoEntry(w) == \A id \in DOMAIN active_tasks : active_tasks[id] # w

\* C17: a webhook failure never blocks teardown.  Whenever the disconnect or
\* the participant-left handler of a session runs, whether its POST is
\* answered 200, answered another status, times out or fails to connect,
\* that handler issues exactly one POST, no exception skips the rest of the
\* handler, the cancellation of the pipeline task is requested, and
\* eventually the spawn task is done and no registry entry names it.
C17_WebhookFailureNeverBlocksTeardown ==
    /\ [][\A w \in Workers :
            (signals'[w] \ signals[w]) \cap TransportSignals # {}
                => /\ webhook_posts'[w] = webhook_posts[w] + 1
                   /\ cancelling'[w]]_vars
    /\ \A w \in 1..MaxTeardowns :
          (signals[w] \cap TransportSignals # {})
              ~> (status[w] = "done" /\ HasNoEntry(w))

C17_Witness ==
    \E w \in Workers :
        /\ signals[w] = {"connected", "left"}
        /\ webhook_outcome[w] = "timeout"
        /\ webhook_posts[w] = 1
        /\ status[w] = "done" /\ outcome[w] = "cancelled" /\ HasNoEntry(w)


\* a step in which the /start handler served a request
ServedStart == start_log' # start_log

\* the calls of the last request that the provider answered without success
FailedCalls(log) ==
    {log.calls[i].op : i \in {j \in 1..Len(log.calls) : ~log.calls[j].ok}}

\* the request was refused and left the workers and the registry alone
RefusedWithoutSpawn ==
    /\ start_log'.response = "error"
    /\ status' = status
    /\ active_tasks' = active_tasks

WorkerJoinsWithOwnToken ==
    LET w == start_log.spawned IN
      /\ runner_args[w].token # start_log.token
      /\ runner_args[w].token.room = start_log.token.room
      /\ runner_args[w].token.user_name = runner_args[w].bot_name

\* the last request succeeded and asked for a new room
StartedInNewRoom ==
    start_log.response = "started" /\ start_log.request.create_room

ProviderOps == {"create_room", "user_token", "bot_token"}

\* C14: provisioning is a single attempt: within one start request each of
\* the provider operations create room, mint user token and mint worker
\* token is called at most once, whatever the answers are, and the room
\* creation comes before every token call.
C14_SingleAttemptInOrder ==
    LET calls == start_log.calls IN
      /\ \A i, j \in 1..Len(calls) : calls[i].op = calls[j].op => i = j
      /\ \A i \in 1..Len(calls) : calls[i].op \in ProviderOps
      /\ \A i, j \in 1..Len(calls) :
            (calls[i].op = "create_room" /\ calls[j].op # "create_room")
                => i < j

C14_Witness ==
    /\ Len(start_log.calls) = 2
    /\ start_log.calls[1].op = "create_room" /\ start_log.calls[1].ok
    /\ start_log.calls[2].op = "user_token" /\ ~start_log.calls[2].ok
    /\ start_log.response = "error"

\* C15: when createRoom is false and no fallback room URL is configured the
\* start request fails with an error, no token is requested from the room
\* provider, no worker is spawned and the registry is unchanged.
C15_NoRoomConfiguredFailsStart ==
    [][(ServedStart /\ ~start_log'.request.create_room /\ ~env.sample_room)
          => /\ RefusedWithoutSpawn
             /\ \A i \in 1..Len(start_log'.calls) :
                   start_log'.calls[i].op \notin {"user_token", "bot_token"}
             /\ task_id' = task_id]_vars

C15_Witness ==
    /\ env.api_key /\ ~env.sample_room
    /\ status[1] = "running"
    /\ DOMAIN active_tasks = {0}
    /\ ~start_log.request.create_room
    /\ start_log.response = "error"
    /\ start_log.calls = <<>>

\* the identifier the request gives: the top-level field when it is present
\* and non-empty, else the field of the nested body
RequestedAvatar(req) ==
    IF req.avatar_top \notin {"absent", ""} THEN req.avatar_top
    ELSE req.avatar_body

\* C16: the spawner chooses the avatar-capable worker exactly when the
\* avatar identifier of the request, looked up at the top level first and
\* in the nested body second, is present and non-empty; for an absent, empty
\* or blank identifier it chooses the voice-only worker.
C16_AvatarWorkerIffIdentifierGiven ==
    start_log.response = "started" =>
        bot_file[start_log.spawned] =
            IF RequestedAvatar(start_log.request) \in {"absent", "", " "}
            THEN "bot.py" ELSE "videobot.py"

C16_Witness ==
    /\ start_log.response = "started"
    /\ start_log.request.avatar_top = ""
    /\ start_log.request.avatar_body = "avatar_1"
    /\ bot_file[start_log.spawned] = "videobot.py"
    /\ \E w \in Workers :
          /\ runner_args[w].body_avatar = " "
          /\ bot_file[w] = "bot.py"


C22_DetectorIsTransparent ==
    \A w \in Workers : pushed[w] = received[w]

C22_Witness ==
    \E w \in Workers :
        pushed[w] = << <<"UserFrame", "DOWNSTREAM">>,
                       <<"ErrorFrame", "UPSTREAM">>,
                       <<"StartFrame", "DOWNSTREAM">>,
                       <<"UserFrame", "DOWNSTREAM">> >>


\* C23: IdleState evolves monotonically over every sequence of ticks and
\* activity resets: conversation_ended never goes back from true to false,
\* consecutive_idle_count never decreases, and
\* continuous_idle_time_seconds decreases only in an activity reset, which
\* sets it to 0; the tick that completes the goodbye leaves it as it is.
C23_IdleStateIsMonotonic ==
    [][\A w \in Workers :
          /\ conversation_ended[w] => conversation_ended'[w]
          /\ consecutive_idle_count'[w] >= consecutive_idle_count[w]
          /\ continuous_idle_time_seconds'[w] < continuous_idle_time_seconds[w]
                => (IsReset(w) /\ continuous_idle_time_seconds'[w] = 0)
          /\ (~conversation_ended[w] /\ conversation_ended'[w])
                => continuous_idle_time_seconds'[w]
                      = continuous_idle_time_seconds[w]]_vars

C23_Witness ==
    \E w \in Workers :
        /\ conversation_ended[w]
        /\ consecutive_idle_count[w] = 3
        /\ silent_seconds[w] = TimerInterval
        /\ continuous_idle_time_seconds[w] = IdleIncrement
        /\ tick_result[w] = "skipped"


\* the values a request supplies for a field, at either level
Supplied(top, nested) == {top, nested} \ {"absent"}

\* C24: for every start request the worker's system prompt is the
\* caller-supplied system_prompt when one was supplied and the built-in
\* default when none was, and the first message is resolved in the same
\* way, independently of the system prompt.
C24_PromptAndFirstMessageResolved ==
    start_log.response = "started" =>
        LET w == start_log.spawned
            req == start_log.request
            prompts == Supplied(req.prompt_top, req.prompt_body)
            firsts == Supplied(req.first_top, req.first_body)
        IN
          /\ messages[w][1] \in
                (IF prompts = {} THEN {"default_prompt"} ELSE prompts)
          /\ "connected" \in signals[w] =>
                messages[w][2] \in
                    (IF firsts = {} THEN {"default_first_message"}
                     ELSE firsts)

(* ------------------ C25: a missing credential at startup -------------- *)
\* C25: when the room provider's API key required by the transport is not
\* set, the server does not start serving requests.
C25_MissingCredentialStopsStartup ==
    MissingVars(env) # {} => ~serving

(* ------------------ C26, C27: ids and entries of live sessions --------- *)
\* C26: a newly started session never receives an id that is still held by
\* a running session in the registry.
C26_NewIdNotHeldByLiveSession ==
    [][\A w \in Workers :
          (status[w] = "unborn" /\ status'[w] # "unborn")
              => ~ \E id \in DOMAIN active_tasks :
                       /\ id = task_id'[w]
                       /\ status[active_tasks[id]] = "running"]_vars

RunningWorkers == {w \in Workers : status[w] = "running"}

\* C27: every running worker has a registry entry under its id whose handle
\* is that worker, and the registry has as many entries as workers run.
C27_EveryLiveWorkerKeepsItsEntry ==
    /\ \A w \in RunningWorkers :
          /\ task_id[w] \in DOMAIN active_tasks
          /\ active_tasks[task_id[w]] = w
    /\ Cardinality(DOMAIN active_tasks) = Cardinality(RunningWorkers)

(* ------------------ C28: the tick above the ceiling -------------------- *)
\* C28: a tick that leaves continuous_idle_time_seconds above the ceiling
\* calls task.cancel() and does nothing else: consecutive_idle_count and
\* conversation_ended keep their values, no turn is appended and nothing
\* is queued, also when the call raises.
C28_CeilingTickOnlyRequestsCancel ==
    [][\A w \in Workers :
          (IsTick(w) /\ continuous_idle_time_seconds'[w] > Ceiling)
              => /\ CancelWasRequested(tick_result'[w])
                 /\ consecutive_idle_count'[w] = consecutive_idle_count[w]
                 /\ conversation_ended'[w] = conversation_ended[w]
                 /\ messages'[w] = messages[w]
                 /\ queued'[w] = queued[w]
                 /\ pc'[w] = pc[w]]_vars

C28_Witness ==
    \E w, v \in Workers :
        /\ tick_result[w] = "cancel_raised"
        /\ continuous_idle_time_seconds[w] = Ceiling + IdleIncrement
        /\ conversation_ended[w]
        /\ consecutive_idle_count[w] = 3
        /\ IdleTurns(w) = EscalationOrder
        /\ tick_result[v] = "cancel_requested"
        /\ continuous_idle_time_seconds[v] = Ceiling + IdleIncrement

(* ------------------ C29: the turns of a whole session ------------------ *)
CheckinTurns(w) ==
    SelectSeq(messages[w],
              LAMBDA m : m \in {"checkin_friendly_concerned", "checkin_casual"})
GoodbyeTurns(w) == SelectSeq(messages[w], LAMBDA m : m = GoodbyeTurn)

C30_GoodbyeDoesNotCancel ==
    [][\A w \in Workers :
          /\ messages'[w] = Append(messages[w], GoodbyeTurn)
                => /\ ~CancelWasRequested(tick_result'[w])
                   /\ cancelling'[w] = cancelling[w]
          /\ (~conversation_ended[w] /\ conversation_ended'[w])
                => /\ tick_result'[w] = "goodbye"
                   /\ cancelling'[w] = cancelling[w]
          /\ (IsTick(w) /\ CancelWasRequested(tick_result'[w]))
                => continuous_idle_time_seconds'[w] > Ceiling]_vars

C30_Witness ==
    \E w \in Workers :
        /\ conversation_ended[w]
        /\ Len(GoodbyeTurns(w)) = 1
        /\ tick_result[w] = "cancel_requested"
        /\ continuous_idle_time_seconds[w] = Ceiling + IdleIncrement
        /\ ~cancelling[w]
        /\ status[w] = "running"

(* ------------------ C31: the ceiling comes after the goodbye ----------- *)
\* C31: whenever a tick takes the ceiling branch and calls task.cancel(),
\* the goodbye turn is already in the context and conversation_ended is
\* already true, whatever resets happened in between.
C31_CeilingOnlyAfterGoodbye ==
    [][\A w \in Workers :
          (IsTick(w) /\ CancelWasRequested(tick_result'[w]))
              => /\ conversation_ended[w]
                 /\ Len(GoodbyeTurns(w)) = 1]_vars

C31_Witness ==
    \E w, v \in Workers :
        /\ conversation_ended[w]
        /\ tick_result[w] = "cancel_requested"
        /\ continuous_idle_time_seconds[w] = Ceiling + 2 * IdleIncrement
        /\ conversation_ended[v]
        /\ tick_result[v] = "cancel_requested"
        /\ continuous_idle_time_seconds[v] = 0

(* ------------------ C32: one response trigger per idle turn ------------ *)
IdleTurnPositions(w) ==
    {p \in 1..Len(messages[w]) : IsIdleTurn(messages[w][p])}
TriggersOf(w, p) == {i \in 1..Len(queued[w]) : queued[w][i] = p}
QueueingPending(w, p) ==
    p = Len(messages[w]) /\ pc[w] \in {"queue_checkin", "queue_goodbye"}

\* a frame queued by the idle handler was queued after the turn was
\* appended and carries a context whose last turn is that turn
TriggerFollowsItsTurn ==
    \A w \in Workers :
        (pc[w] \in {"queue_checkin", "queue_goodbye"}
         /\ queued'[w] # queued[w])
            => /\ messages'[w] = messages[w]
               /\ IsIdleTurn(messages[w][Len(messages[w])])
               /\ queued'[w] = Append(queued[w], Len(messages[w]))

\* C32 as stated: every turn the idle handler has appended has exactly one
\* queued response trigger (the turn whose queue_frames call is still
\* pending has none yet), queued after the append and carrying a context
\* that ends with that turn.
C32_EveryIdleTurnTriggeredOnce ==
    /\ [](\A w \in Workers : \A p \in IdleTurnPositions(w) :
             IF QueueingPending(w, p)
             THEN TriggersOf(w, p) = {}
             ELSE Cardinality(TriggersOf(w, p)) = 1)
    /\ [][TriggerFollowsItsTurn]_vars

(* ------------------ C33: the order of the teardown steps --------------- *)
GotEndSignal(w) == signals[w] \cap TransportSignals # {}

\* C33: for a session that got a disconnect or participant-left signal the
\* webhook POST has been attempted by the time cancellation is requested,
\* and the session's registry entry goes only in the step in which its
\* worker ends.
C33_TeardownStepsInOrder ==
    [][\A w \in Workers :
          /\ (~cancelling[w] /\ cancelling'[w]) => webhook_posts'[w] >= 1
          /\ (GotEndSignal(w) /\ ~HasNoEntry(w) /\ HasNoEntry(w)')
                => (status[w] = "running" /\ status'[w] = "done")]_vars

(* ------------------ C34: an outstanding webhook POST ------------------- *)
\* C34: while the webhook POST of one session has not returned, every other
\* running session can still take its idle tick and process a frame, and
\* its worker can still finish and leave the registry.
C34_OutstandingPostStallsNoOtherSession ==
    \A w, v \in Workers :
        (posting = w /\ v # w /\ status[v] = "running")
            => /\ (pc[v] = "ready"
                   /\ IdleAfterTick(continuous_idle_time_seconds[v]) <= MaxIdle)
                      => ENABLED HandleIdleBegin(v)
               /\ ENABLED ProcessFrame(v, <<"UserFrame", "DOWNSTREAM">>)
               /\ ENABLED WorkerEnds(v, "completed")

(* ------------------ C35: avatar_enabled and the worker run ------------- *)
\* C35: in a successful start response avatar_enabled is true exactly when
\* the spawner runs the avatar-capable worker for that request.
C35_AvatarEnabledMatchesWorker ==
    start_log.response = "started" =>
        (start_log.avatar_enabled
            <=> bot_file[start_log.spawned] = "videobot.py")

(* ------------------ C36: the names of the response and of the worker --- *)
\* C36: the bot_name and user_name of a successful start response (the
\* names the room tokens were minted for) are the names the spawned worker
\* resolves for its prompt, greeting and webhook summary.
C36_ResponseNamesAreWorkerNames ==
    start_log.response = "started" =>
        LET args == runner_args[start_log.spawned] IN
          /\ start_log.token.user_name = start_log.user_name
          /\ start_log.bot_name = BotName(args)
          /\ start_log.user_name = UserName(args)

(* ------------------ C37: the context is append-only -------------------- *)
IsPrefix(a, b) == Len(a) <= Len(b) /\ SubSeq(b, 1, Len(a)) = a

\* C37: every step leaves the turns a session's context already holds in
\* place and unchanged, adding turns only at the end, and the first turn of
\* a started session is the system prompt it was started with.
C37_ContextIsAppendOnly ==
    /\ [](\A w \in Workers :
             status[w] # "unborn"
                 => /\ Len(messages[w]) >= 1
                    /\ messages[w][1] = SystemPrompt(runner_args[w]))
    /\ [][\A w \in Workers : IsPrefix(messages[w], messages'[w])]_vars

C37_Witness ==
    \E w \in Workers :
        messages[w] = <<"prompt_top", "checkin_friendly_concerned",
                        "default_first_message", "checkin_casual",
                        "goodbye">>

====
